---- MODULE Spec2Model ----
(***************************************************************************)
(* A model of olc-datafile-rust: the Datafile tree (src/src/datafile.rs),  *)
(* the line parser (src/src/processor/reader.rs) and the serializer        *)
(* (src/src/processor/writer.rs).                                          *)
(*                                                                         *)
(* A Rust String is modelled as a sequence of one-character strings, so    *)
(* that trimming, splitting, quoting and tokenizing are computed character *)
(* by character as the code does.  A Datafile is a record that holds its   *)
(* children by value, as the Rust struct does.                             *)
(***************************************************************************)
EXTENDS Integers, Sequences, FiniteSets, TLC

VARIABLES
    root,     \* the caller's Datafile (the tree a Reader or Writer works on)
    pc,       \* "idle" | "reading" | "done": where Datafile::read stands
    lines,    \* Vec<Result<String, Error>> collected by Reader::read
    stack,    \* the active read_inner calls, innermost last
    result,   \* "none" | "Ok" | "Err" | "Panic": what the last read returned
    buffer,   \* the text the last Datafile::write put into the file
    saved,    \* the tree the caller held when the last read was called
    ret,      \* where the reference returned by the last get/get_property points
    step,     \* the next call of main (examples/usage.rs); 0 for other callers
    out       \* <<n>> for the n the last get_integer returned, <<>> before

vars == <<root, pc, lines, stack, result, buffer, saved, ret, step, out>>

----------------------------------------------------------------------------
(* Bounds of the model. *)

MaxNodes == 2
MaxTreeNodes == 3
MaxValues == 2
MaxIndex == 1
MaxSegments == 2
MaxLines == 3
MaxSourceLines == 2

----------------------------------------------------------------------------
(* str: the std string operations the code uses. *)

IsWhitespace(c) == c \in {" ", "\t", "\n", "\r"}

RECURSIVE TrimStart(_)
TrimStart(s) ==
    IF s # <<>> /\ IsWhitespace(Head(s)) THEN TrimStart(Tail(s)) ELSE s

RECURSIVE TrimEnd(_)
TrimEnd(s) ==
    IF s # <<>> /\ IsWhitespace(s[Len(s)])
    THEN TrimEnd(SubSeq(s, 1, Len(s) - 1))
    ELSE s

Trim(s) == TrimEnd(TrimStart(s))

StartsWith(s, c) == s # <<>> /\ s[1] = c

Contains(s, c) == \E i \in 1..Len(s) : s[i] = c

\* str::find: the position of the first c in s (1-based), 0 for None.
Find(s, c) ==
    IF Contains(s, c)
    THEN CHOOSE i \in 1..Len(s) : s[i] = c /\ \A j \in 1..(i - 1) : s[j] # c
    ELSE 0

\* str::split_once on a string that contains c.
SplitOnce(s, c) ==
    <<SubSeq(s, 1, Find(s, c) - 1), SubSeq(s, Find(s, c) + 1, Len(s))>>

Max(a, b) == IF a >= b THEN a ELSE b

\* Vec::resize.
Resize(v, n, fill) == [i \in 1..n |-> IF i <= Len(v) THEN v[i] ELSE fill]

RECURSIVE Concat(_)
Concat(ss) == IF ss = <<>> THEN <<>> ELSE Head(ss) \o Concat(Tail(ss))

----------------------------------------------------------------------------
(* Datafile (src/src/datafile.rs). *)

DEFAULT_LIST_SEPARATOR == ","
DEFAULT_WHITESPACE_SEQUENCE == <<"\t">>

EmptyMap == [n \in {} |-> 0]

\* HashMap::insert
MapInsert(m, k, v) == [n \in DOMAIN m \cup {k} |-> IF n = k THEN v ELSE m[n]]

DatafileNew(list_separator, whitespace_sequence) ==
    [list_separator |-> list_separator,
     whitespace_sequence |-> whitespace_sequence,
     is_comment |-> FALSE,
     contents |-> <<>>,
     object_vec |-> <<>>,
     object_map |-> EmptyMap]

\* push_object that puts the pair at the front.
push_object_front(self, name, object) ==
    [self EXCEPT !.object_vec = <<<<name, object>>>> \o @]

push_object(self, name, object) ==
    [self EXCEPT !.object_vec = Append(@, <<name, object>>)]

\* set_string with the length test dropped: it resizes on every write.
set_string_always_resize(self, value, index) ==
    [self EXCEPT !.contents =
        [Resize(self.contents, index + 1, <<>>) EXCEPT ![index + 1] = value]]

set_string(self, value, index) ==
    LET resized == IF index >= Len(self.contents)
                   THEN Resize(self.contents, index + 1, <<>>)
                   ELSE self.contents
    IN  [self EXCEPT !.contents = [resized EXCEPT ![index + 1] = value]]

get_string(self, index) ==
    IF index + 1 \in DOMAIN self.contents THEN self.contents[index + 1] ELSE <<>>

get_value_count(self) == Len(self.contents)

has_property(self, name) == name \in DOMAIN self.object_map

\* get with the contains_key test dropped: it inserts on every lookup.
get_always_push(self, name) ==
    LET s == push_object(
                 [self EXCEPT !.object_map =
                                  MapInsert(@, name, Len(self.object_vec))],
                 name,
                 DatafileNew(self.list_separator, self.whitespace_sequence))
    IN  [node |-> s,
         at |-> s.object_map[name] + 1,
         panic |-> s.object_map[name] + 1 > Len(s.object_vec)]

\* get that registers the child one position too far.
get_off_by_one(self, name) ==
    LET s == IF ~(name \in DOMAIN self.object_map)
             THEN push_object(
                      [self EXCEPT !.object_map =
                                       MapInsert(@, name, Len(self.object_vec) + 1)],
                      name,
                      DatafileNew(self.list_separator, self.whitespace_sequence))
             ELSE self
    IN  [node |-> s,
         at |-> s.object_map[name] + 1,
         panic |-> s.object_map[name] + 1 > Len(s.object_vec)]

\* get(name): `node` is self after the call, `at` the position in object_vec
\* (1-based) of the child the returned reference points to; `panic` when
\* the index expression object_vec[object_map[name]] is out of bounds.
get(self, name) ==
    LET s == IF ~has_property(self, name)
             THEN push_object(
                      [self EXCEPT !.object_map =
                                       MapInsert(@, name, Len(self.object_vec))],
                      name,
                      DatafileNew(self.list_separator, self.whitespace_sequence))
             ELSE self
    IN  [node |-> s,
         at |-> s.object_map[name] + 1,
         panic |-> s.object_map[name] + 1 > Len(s.object_vec)]

\* The child of node at position at (the Datafile of the pair).
Child(node, at) == node.object_vec[at][2]

SetChild(node, at, child) ==
    [node EXCEPT !.object_vec[at] = <<node.object_vec[at][1], child>>]

\* The node that the path (positions in object_vec, outermost first) leads to.
RECURSIVE NodeAt(_, _)
NodeAt(node, path) ==
    IF path = <<>> THEN node ELSE NodeAt(Child(node, Head(path)), Tail(path))

\* node with the node at path replaced: a write through a &mut reference.
RECURSIVE ReplaceAt(_, _, _)
ReplaceAt(node, path, new) ==
    IF path = <<>> THEN new
    ELSE SetChild(node, Head(path),
                  ReplaceAt(Child(node, Head(path)), Tail(path), new))

\* get_property(name): `node` is self after the call, `ret` the path from
\* self to the node the returned reference points to.
RECURSIVE get_property(_, _)
get_property(self, name) ==
    LET dot_index == Find(name, ".") IN
    IF dot_index = 0
    THEN LET g == get(self, name) IN [node |-> g.node, ret |-> <<g.at>>]
    ELSE LET node_name == SubSeq(name, 1, dot_index - 1)
             rest == SubSeq(name, dot_index, Len(name))
             g == get(self, node_name)
         IN  IF has_property(self, node_name)
             THEN LET r == get_property(Child(g.node, g.at), Tail(rest))
                  IN  [node |-> SetChild(g.node, g.at, r.node),
                       ret |-> <<g.at>> \o r.ret]
             ELSE [node |-> g.node, ret |-> <<g.at>>]

----------------------------------------------------------------------------
(* The callers of the library: what they can hold and pass. *)

Names == {<<"a">>, <<"b">>}

Values == {<<>>, <<"x">>}

RECURSIVE DottedOfLen(_)
DottedOfLen(n) ==
    IF n = 1 THEN Names
    ELSE {h \o <<".">> \o t : h \in Names, t \in DottedOfLen(n - 1)}

DottedNames == UNION {DottedOfLen(n) : n \in 1..MaxSegments}

\* The nodes a caller can get a reference to: the root, and what chains of
\* get() lead to (object_vec is not public).
RECURSIVE ApiPaths(_)
ApiPaths(node) ==
    {<<>>} \cup
    UNION {{<<node.object_map[n] + 1>> \o p :
                p \in ApiPaths(Child(node, node.object_map[n] + 1))} :
           n \in DOMAIN node.object_map}

\* The number of nodes below node.
RECURSIVE NodeCount(_)
NodeCount(node) ==
    IF node.object_vec = <<>> THEN 0
    ELSE 1 + NodeCount(Child(node, 1))
           + NodeCount([node EXCEPT !.object_vec = Tail(@)])

\* The number of values in node and below it.
RECURSIVE ValueCount(_)
ValueCount(node) ==
    IF node.object_vec = <<>> THEN Len(node.contents)
    ELSE ValueCount(Child(node, 1))
         + ValueCount([node EXCEPT !.object_vec = Tail(@)])

Init ==
    /\ root = DatafileNew(DEFAULT_LIST_SEPARATOR, DEFAULT_WHITESPACE_SEQUENCE)
    /\ pc = "idle"
    /\ lines = <<>>
    /\ stack = <<>>
    /\ result = "none"
    /\ buffer = <<>>
    /\ saved = <<>>
    /\ ret = <<>>
    /\ step = 0
    /\ out = <<>>

\* The caller is between two calls of read: nothing of the last one is kept.
BetweenReads ==
    /\ pc # "reading"
    /\ pc' = "idle" /\ lines' = <<>> /\ stack' = <<>>
    /\ result' = "none" /\ saved' = <<>> /\ buffer' = <<>>

\* node.get(name) on a node the caller reached.
Get(path, name) ==
    /\ BetweenReads
    /\ LET g == get(NodeAt(root, path), name) IN
       /\ root' = ReplaceAt(root, path, g.node)
       /\ ret' = path \o <<g.at>>
    /\ UNCHANGED <<step, out>>

\* node.set_string(value, index) on a node the caller reached.
SetString(path, value, index) ==
    /\ BetweenReads
    /\ root' = ReplaceAt(root, path, set_string(NodeAt(root, path), value, index))
    /\ UNCHANGED <<ret, step, out>>

\* node.get_property(dotted) on a node the caller reached.
GetProperty(path, name) ==
    /\ BetweenReads
    /\ LET r == get_property(NodeAt(root, path), name) IN
       /\ root' = ReplaceAt(root, path, r.node)
       /\ ret' = path \o r.ret
    /\ UNCHANGED <<step, out>>

\* The calls of the API, on trees of at most MaxNodes nodes and MaxValues
\* values.
NextApi ==
    \/ \E path \in ApiPaths(root), name \in Names :
           Get(path, name) /\ NodeCount(root') <= MaxNodes
    \/ \E path \in ApiPaths(root), value \in Values, index \in 0..MaxIndex :
           SetString(path, value, index) /\ ValueCount(root') <= MaxValues
    \/ \E path \in ApiPaths(root), name \in DottedNames :
           GetProperty(path, name) /\ NodeCount(root') <= MaxNodes

SpecApi == Init /\ [][NextApi]_vars

----------------------------------------------------------------------------
(* Typed values (src/src/lexical, and the typed accessors of datafile.rs). *)

\* i32::MAX; i32::MIN is -I32_MAX - 1.
I32_MAX == 2147483647

Digits == <<"0", "1", "2", "3", "4", "5", "6", "7", "8", "9">>

IsDigit(c) == \E d \in 1..10 : Digits[d] = c

DigitValue(c) == (CHOOSE d \in 1..10 : Digits[d] = c) - 1

\* The decimal digits of a natural number.
RECURSIVE NatToString(_)
NatToString(n) ==
    IF n < 10 THEN <<Digits[n + 1]>>
    ELSE NatToString(n \div 10) \o <<Digits[(n % 10) + 1]>>

\* i32_serialize without the last digit.
i32_serialize_short(value) == NatToString(value \div 10)

\* <i32 as Serializable>::serialize: self.to_string().
i32_serialize(value) ==
    IF value >= 0 THEN NatToString(value)
    ELSE IF value = -I32_MAX - 1
         THEN <<"-", "2", "1", "4", "7", "4", "8", "3", "6", "4", "8">>
         ELSE <<"-">> \o NatToString(-value)

\* The value of a sequence of digits read from the left, starting from acc;
\* -1 when it is not a sequence of digits or when it exceeds I32_MAX.
RECURSIVE DigitsValue(_, _)
DigitsValue(text, acc) ==
    IF text = <<>> THEN acc
    ELSE IF ~IsDigit(Head(text)) THEN -1
    ELSE IF acc > (I32_MAX - DigitValue(Head(text))) \div 10 THEN -1
    ELSE DigitsValue(Tail(text), acc * 10 + DigitValue(Head(text)))

\* str::parse::<i32>: an optional sign and one or more digits, in range.
parse_i32(data) ==
    LET signed == data # <<>> /\ Head(data) \in {"+", "-"}
        digits == IF signed THEN Tail(data) ELSE data
        neg    == signed /\ Head(data) = "-"
        n      == DigitsValue(digits, 0)
    IN  IF digits = <<>> THEN [ok |-> FALSE, value |-> 0]
        ELSE IF n >= 0 THEN [ok |-> TRUE, value |-> IF neg THEN -n ELSE n]
        ELSE IF /\ neg
                /\ digits = <<"2", "1", "4", "7", "4", "8", "3", "6", "4", "8">>
             THEN [ok |-> TRUE, value |-> -I32_MAX - 1]
        ELSE [ok |-> FALSE, value |-> 0]

\* str::replace(from, to) for one-character patterns.
Replace(data, from, to) ==
    [i \in 1..Len(data) |-> IF data[i] = from THEN to ELSE data[i]]

\* The longest prefix of digits of a text.
RECURSIVE LeadingDigits(_)
LeadingDigits(text) ==
    IF text = <<>> \/ ~IsDigit(Head(text)) THEN <<>>
    ELSE <<Head(text)>> \o LeadingDigits(Tail(text))

\* A text without its first n characters.
Drop(text, n) == SubSeq(text, n + 1, Len(text))

ToLower(c) ==
    CASE c = "I" -> "i" [] c = "N" -> "n" [] c = "F" -> "f" [] c = "A" -> "a"
      [] c = "T" -> "t" [] c = "Y" -> "y" [] c = "E" -> "e" [] OTHER -> c

\* The integer part of 0.d1 d2 d3 ... * 10^n for the digits d1 d2 ..., read
\* from the left starting from acc; -1 when it exceeds I32_MAX.
RECURSIVE WholePart(_, _, _)
WholePart(digits, n, acc) ==
    IF n <= 0 \/ acc = -1 THEN acc
    ELSE LET d == IF digits = <<>> THEN 0 ELSE DigitValue(Head(digits))
             rest == IF digits = <<>> THEN <<>> ELSE Tail(digits)
         IN  WholePart(rest, n - 1,
                       IF acc > (I32_MAX - d) \div 10 THEN -1 ELSE acc * 10 + d)

\* The exponent of a decimal text: the digits after e, e+ or e-, capped.
ExponentCap == 100

Exponent(text) ==
    LET signed == text # <<>> /\ Head(text) \in {"+", "-"}
        digits == IF signed THEN Tail(text) ELSE text
        n      == DigitsValue(digits, 0)
        capped == IF n = -1 \/ n > ExponentCap THEN ExponentCap ELSE n
    IN  [ok |-> digits # <<>> /\ \A i \in 1..Len(digits) : IsDigit(digits[i]),
         value |-> IF signed /\ Head(text) = "-" THEN -capped ELSE capped]

\* str::parse::<f32>, as far as a cast to i32 can tell: whether the text is
\* a number, and the f32's kind, sign and integer part (over: the integer
\* part exceeds I32_MAX).  The text is [sign] digits [. digits] [e [sign]
\* digits] with a digit before the exponent, or [sign] inf, infinity or nan
\* in any case.
parse_f32(data) ==
    LET signed == data # <<>> /\ Head(data) \in {"+", "-"}
        neg    == signed /\ Head(data) = "-"
        s      == IF signed THEN Tail(data) ELSE data
        lower  == [i \in 1..Len(s) |-> ToLower(s[i])]
        int    == LeadingDigits(s)
        s1     == Drop(s, Len(int))
        dot    == s1 # <<>> /\ Head(s1) = "."
        frac   == IF dot THEN LeadingDigits(Tail(s1)) ELSE <<>>
        s2     == IF dot THEN Drop(s1, 1 + Len(frac)) ELSE s1
        hasExp == s2 # <<>> /\ ToLower(Head(s2)) = "e"
        exp    == IF hasExp THEN Exponent(Tail(s2)) ELSE [ok |-> TRUE, value |-> 0]
        number == /\ Len(int) + Len(frac) > 0
                  /\ s2 = <<>> \/ hasExp
                  /\ exp.ok
        whole  == WholePart(int \o frac, Len(int) + exp.value, 0)
        none   == [ok |-> FALSE, kind |-> "finite", neg |-> FALSE,
                   whole |-> 0, over |-> FALSE]
    IN  IF number
        THEN [ok |-> TRUE, kind |-> "finite", neg |-> neg,
              whole |-> IF whole = -1 THEN I32_MAX ELSE whole,
              over |-> whole = -1]
        ELSE IF lower \in {<<"i", "n", "f">>,
                           <<"i", "n", "f", "i", "n", "i", "t", "y">>}
        THEN [none EXCEPT !.ok = TRUE, !.kind = "inf", !.neg = neg]
        ELSE IF lower = <<"n", "a", "n">>
        THEN [none EXCEPT !.ok = TRUE, !.kind = "nan", !.neg = neg]
        ELSE none

\* 0.0, the value of unwrap_or(0.0).
ZeroF32 ==
    [ok |-> TRUE, kind |-> "finite", neg |-> FALSE, whole |-> 0, over |-> FALSE]

\* `value as i32` for an f32: the integer part, saturated; 0 for NaN.
f32_as_i32(value) ==
    IF value.kind = "nan" THEN 0
    ELSE IF value.kind = "inf" \/ value.over
         THEN IF value.neg THEN -I32_MAX - 1 ELSE I32_MAX
    ELSE IF value.neg THEN -value.whole ELSE value.whole

\* i32_deserialize that leaves "," as it is.
i32_deserialize_no_comma(data) ==
    LET r == parse_i32(data)
        f == parse_f32(data)
    IN  IF r.ok THEN r.value
        ELSE f32_as_i32(IF f.ok THEN f ELSE ZeroF32)

\* <i32 as Serializable>::deserialize.
i32_deserialize(data) ==
    LET r == parse_i32(data)
        f == parse_f32(Replace(data, ",", "."))
    IN  IF r.ok THEN r.value
        ELSE f32_as_i32(IF f.ok THEN f ELSE ZeroF32)

\* <f32 as Serializable>::serialize: self.to_string(), the shortest decimal
\* that reads back as the same f32.  An f32 handed to set_real is given by
\* that decimal: its sign, its digits and the number of digits before the
\* point.
f32_serialize(value) ==
    (IF value.neg THEN <<"-">> ELSE <<>>)
    \o SubSeq(value.digits, 1, value.point)
    \o (IF value.point < Len(value.digits)
        THEN <<".">> \o Drop(value.digits, value.point) ELSE <<>>)

\* Datafile::set_real
set_real(self, value, index) == set_string(self, f32_serialize(value), index)

\* Datafile::set_integer
set_integer(self, value, index) == set_string(self, i32_serialize(value), index)

\* Datafile::get_integer
get_integer(self, index) == i32_deserialize(get_string(self, index))

----------------------------------------------------------------------------
(* Reader (src/src/processor/reader.rs). *)

\* An element of Vec<Result<String, Error>>.
OkLine(text) == [ok |-> TRUE, text |-> text]
ErrLine == [ok |-> FALSE, text |-> <<>>]

\* trim_line without the trim.
trim_line_no_trim(line) == [ok |-> line.ok, text |-> line.text]

\* trim_line: the trimmed text of an Ok line, the error of an Err line.
trim_line(line) == [ok |-> line.ok, text |-> Trim(line.text)]

construct_comment_node(parent_node) ==
    [DatafileNew(parent_node.list_separator, parent_node.whitespace_sequence)
        EXCEPT !.is_comment = TRUE]

\* push_token_to_node: node after node.get(key.trim()).set_string(token.trim(), index).
\* push_token_to_node that stores the token as it is.
push_token_to_node_no_trim(key, token, index, node) ==
    LET g == get(node, Trim(key)) IN
    IF g.panic THEN [node |-> g.node, panic |-> TRUE]
    ELSE [node |-> SetChild(g.node, g.at,
                            set_string(Child(g.node, g.at), token, index)),
          panic |-> FALSE]

push_token_to_node(key, token, index, node) ==
    LET g == get(node, Trim(key)) IN
    IF g.panic THEN [node |-> g.node, panic |-> TRUE]
    ELSE [node |-> SetChild(g.node, g.at,
                            set_string(Child(g.node, g.at), Trim(token), index)),
          panic |-> FALSE]

\* The loop of parse_value_from_line over the characters left, and the push
\* of the last token after it.
RECURSIVE ScanValue(_, _, _, _, _, _)
ScanValue(parent_node, key, chars, is_in_quotes, token_count, token) ==
    \* `at` holds the values of the loop's variables at this iteration, each
    \* evaluated once.
    CHOOSE scanned \in
        { IF at.chars = <<>>
          THEN IF at.token # <<>>
               THEN push_token_to_node(at.key, at.token, at.token_count,
                                       at.parent_node)
               ELSE [node |-> at.parent_node, panic |-> FALSE]
          ELSE LET char == Head(at.chars) IN
               IF char = "\""
               THEN ScanValue(at.parent_node, at.key, Tail(at.chars),
                              ~at.is_in_quotes, at.token_count, at.token)
               ELSE IF at.is_in_quotes
               THEN ScanValue(at.parent_node, at.key, Tail(at.chars),
                              at.is_in_quotes, at.token_count,
                              Append(at.token, char))
               ELSE IF char = at.parent_node.list_separator
               THEN LET r == push_token_to_node(at.key, at.token,
                                                at.token_count, at.parent_node)
                    IN  IF r.panic THEN r
                        ELSE ScanValue(r.node, at.key, Tail(at.chars),
                                       at.is_in_quotes, at.token_count + 1, <<>>)
               ELSE ScanValue(at.parent_node, at.key, Tail(at.chars),
                              at.is_in_quotes, at.token_count,
                              Append(at.token, char))
          : at \in {[parent_node |-> parent_node, key |-> key, chars |-> chars,
                     is_in_quotes |-> is_in_quotes, token_count |-> token_count,
                     token |-> token]} } : TRUE

parse_value_from_line(parent_node, key, raw_value) ==
    ScanValue(parent_node, key, raw_value, FALSE, 0, <<>>)

\* The branch of the loop body of read_inner that a trimmed line takes.
LineKind(line) ==
    IF line = <<>> \/ StartsWith(line, "{") THEN "skip"
    ELSE IF StartsWith(line, "#") THEN "comment"
    ELSE IF StartsWith(line, "}") THEN "close"
    ELSE IF ~Contains(line, "=") THEN "header"
    ELSE IF SplitOnce(line, "=")[2] = <<>> THEN "empty_value"
    ELSE "value"

\* What the callers of a read_inner call that returns do: each one is at
\* `return Self::read_inner(..)`, so each returns in turn and none is left.
CallersAfterReturn(callers) == <<>>

\* A callee that starts at the header line itself.
CalleeSkipHeader(line_number, skip) == line_number + skip - 1

\* The first line of the callee: read_inner(new_node, lines, line_number + skip).
CalleeSkip(line_number, skip) == line_number + skip

\* The innermost read_inner call, the line it is at, its node.
Top == stack[Len(stack)]
LineIndex == Top.skip + Top.i
AtEnd == LineIndex >= Len(lines)
CurLine == trim_line(lines[LineIndex + 1])
Parent == NodeAt(root, Top.node)

\* `continue`: the loop of the innermost call moves to its next line.
Continue == stack' = [stack EXCEPT ![Len(stack)].i = @ + 1]

\* The innermost call returns res; with no caller left, read returns it.
Return(res) ==
    /\ stack' = CallersAfterReturn(SubSeq(stack, 1, Len(stack) - 1))
    /\ IF stack' = <<>>
       THEN pc' = "done" /\ result' = res
       ELSE /\ pc' = pc /\ result' = result
            /\ res = "Ok"

\* The texts a source can hold.
LineSet ==
    { <<"a">>, <<"{">>, <<"}">>, <<"#", "c">>, <<" ">>,
      <<"a", " ", "=", " ", "x">>, <<"\t", "b", "=", "x", ",", "x">>,
      <<"b", " ", "=", " ">>, <<"=", "x">>, <<"#", "b", "=">> }

RECURSIVE SeqsUpTo(_, _)
SeqsUpTo(S, n) ==
    IF n = 0 THEN {<<>>}
    ELSE SeqsUpTo(S, n - 1)
         \cup {Append(q, e) : q \in {r \in SeqsUpTo(S, n - 1) : Len(r) = n - 1},
                              e \in S}

Sources(n) == SeqsUpTo({OkLine(t) : t \in LineSet} \cup {ErrLine}, n)

\* The root as Datafile::new made it; the Reader documents that a read is
\* meant for such a root.
IsFresh(node) == node.contents = <<>> /\ node.object_vec = <<>>

\* Datafile::read on a source that cannot be opened: File::open(path)? fails.
ReadOpenFails ==
    /\ pc # "reading"
    /\ pc' = "done"
    /\ result' = "OpenError"
    /\ saved' = root
    /\ lines' = <<>>
    /\ stack' = <<>>
    /\ UNCHANGED <<root, buffer, ret, step, out>>

\* Datafile::read up to the first call of read_inner: the lines are collected.
ReadStart(source) ==
    /\ pc # "reading"
    /\ pc' = "reading"
    /\ result' = "none"
    /\ saved' = root
    /\ lines' = source
    /\ stack' = <<[node |-> <<>>, skip |-> 0, i |-> 0]>>
    /\ UNCHANGED <<root, buffer, ret, step, out>>

\* The loop of the innermost call has no line left: Ok(()).
ReadLoopEnd ==
    /\ pc = "reading" /\ AtEnd
    /\ Return("Ok")
    /\ UNCHANGED <<root, lines, buffer, saved, ret, step, out>>

\* trim_line(..)? on a line that could not be read.
ReadLineError ==
    /\ pc = "reading" /\ ~AtEnd /\ ~CurLine.ok
    /\ stack' = <<>> /\ pc' = "done" /\ result' = "LineError"
    /\ UNCHANGED <<root, lines, buffer, saved, ret, step, out>>

ReadSkip ==
    /\ pc = "reading" /\ ~AtEnd /\ CurLine.ok
    /\ LineKind(CurLine.text) = "skip"
    /\ Continue
    /\ UNCHANGED <<root, pc, lines, result, buffer, saved, ret, step, out>>

\* The comment branch with get in place of push_object: the comment child
\* is looked up by name, registered and merged.
ReadCommentDedup ==
    /\ pc = "reading" /\ ~AtEnd /\ CurLine.ok
    /\ LineKind(CurLine.text) = "comment"
    /\ LET g == get(Parent, CurLine.text) IN
       root' = ReplaceAt(root, Top.node,
                   SetChild(g.node, g.at,
                            [Child(g.node, g.at) EXCEPT !.is_comment = TRUE]))
    /\ Continue
    /\ UNCHANGED <<pc, lines, result, buffer, saved, ret, step, out>>

ReadComment ==
    /\ pc = "reading" /\ ~AtEnd /\ CurLine.ok
    /\ LineKind(CurLine.text) = "comment"
    /\ root' = ReplaceAt(root, Top.node,
                   push_object(Parent, CurLine.text, construct_comment_node(Parent)))
    /\ Continue
    /\ UNCHANGED <<pc, lines, result, buffer, saved, ret, step, out>>

ReadClose ==
    /\ pc = "reading" /\ ~AtEnd /\ CurLine.ok
    /\ LineKind(CurLine.text) = "close"
    /\ Return("Ok")
    /\ UNCHANGED <<root, lines, buffer, saved, ret, step, out>>

ReadHeader ==
    /\ pc = "reading" /\ ~AtEnd /\ CurLine.ok
    /\ LineKind(CurLine.text) = "header"
    /\ LET g == get(Parent, CurLine.text)
           line_number == Top.i + 1
       IN  /\ root' = ReplaceAt(root, Top.node, g.node)
           /\ IF g.panic
              THEN stack' = <<>> /\ pc' = "done" /\ result' = "Panic"
              ELSE /\ stack' = Append(stack,
                                      [node |-> Top.node \o <<g.at>>,
                                       skip |-> CalleeSkip(line_number, Top.skip),
                                       i |-> 0])
                   /\ UNCHANGED <<pc, result>>
    /\ UNCHANGED <<lines, buffer, saved, ret, step, out>>

ReadEmptyValue ==
    /\ pc = "reading" /\ ~AtEnd /\ CurLine.ok
    /\ LineKind(CurLine.text) = "empty_value"
    /\ Continue
    /\ UNCHANGED <<root, pc, lines, result, buffer, saved, ret, step, out>>

ReadValue ==
    /\ pc = "reading" /\ ~AtEnd /\ CurLine.ok
    /\ LineKind(CurLine.text) = "value"
    /\ LET split == SplitOnce(CurLine.text, "=")
           r == parse_value_from_line(Parent, split[1], split[2])
       IN  /\ root' = ReplaceAt(root, Top.node, r.node)
           /\ IF r.panic
              THEN stack' = <<>> /\ pc' = "done" /\ result' = "Panic"
              ELSE Continue /\ UNCHANGED <<pc, result>>
    /\ UNCHANGED <<lines, buffer, saved, ret, step, out>>

ReadStep ==
    \/ ReadLoopEnd
    \/ ReadLineError
    \/ ReadSkip
    \/ ReadComment
    \/ ReadClose
    \/ ReadHeader
    \/ ReadEmptyValue
    \/ ReadValue

\* The text after the "=" of a value line: at most MaxRawLen characters, of
\* which one is the separator, one the quote and one whitespace.
MaxRawLen == 4

RawValues == SeqsUpTo({"x", ",", "\"", " "}, MaxRawLen)

\* The sources that end with the value line of a raw value, alone or after
\* a line that gave the key three values.
ValueSources ==
    {prefix \o <<OkLine(<<"a", " ", "=">> \o raw)>> :
         prefix \in {<<>>, <<OkLine(<<"a", "=", "x", ",", "x", ",", "x">>)>>},
         raw \in RawValues}

NextRead ==
    \/ ReadOpenFails
    \/ pc = "idle" /\ IsFresh(root)
       /\ \E source \in Sources(MaxLines) : ReadStart(source)
    \/ pc = "idle" /\ IsFresh(root)
       /\ \E source \in ValueSources : ReadStart(source)
    \/ ReadStep

\* A read of any source into a fresh root.
SpecRead == Init /\ [][NextRead]_vars

\* The same, with the loop of read_inner running on: a call of read is
\* sequential code that takes its next step as long as it has one.
SpecReadFair == SpecRead /\ WF_vars(ReadStep)

----------------------------------------------------------------------------
(* Writer (src/src/processor/writer.rs). *)

\* get_indentation: indent_level copies of the indentation unit.
get_indentation(indent_level, indentation) ==
    Concat([i \in 1..indent_level |-> indentation])

\* write_value_key: format!("{}{name} {} ", indentation, "" or "=").
write_value_key(node, name, indent_level) ==
    get_indentation(indent_level, node.whitespace_sequence)
    \o name \o <<" ">> \o (IF node.is_comment THEN <<>> ELSE <<"=">>) \o <<" ">>

\* write_list without the quoting.
QuoteValueNever(data_file, value) == value

\* The value as write_list maps it: quoted when it contains the separator.
QuoteValue(data_file, value) ==
    IF Contains(value, data_file.list_separator)
    THEN <<"\"">> \o value \o <<"\"">>
    ELSE value

\* [T]::join
RECURSIVE Join(_, _)
Join(ss, sep) ==
    IF ss = <<>> THEN <<>>
    ELSE IF Len(ss) = 1 THEN ss[1]
    ELSE ss[1] \o sep \o Join(Tail(ss), sep)

\* write_list: the separator is that of the Writer's data_file (the root).
write_list(data_file, node) ==
    Join([i \in 1..Len(node.contents) |-> QuoteValue(data_file, node.contents[i])],
         <<data_file.list_separator, " ">>)

write_node_header(node, indent_level, name) ==
    LET indentation == get_indentation(indent_level, node.whitespace_sequence)
    IN  <<"\n">> \o indentation \o name \o <<"\n">> \o indentation \o <<"{", "\n">>

\* write_node_footer one level too deep.
write_node_footer_deeper(node, indent_level) ==
    get_indentation(indent_level + 1, node.whitespace_sequence) \o <<"}", "\n">>

write_node_footer(node, indent_level) ==
    get_indentation(indent_level, node.whitespace_sequence) \o <<"}", "\n">>

\* The loop of write_node over the children from position `from` on: the
\* text it appends to the buffer.
RECURSIVE write_node(_, _, _, _)
write_node(data_file, datafile, indent_level, from) ==
    IF from > Len(datafile.object_vec) THEN <<>>
    ELSE LET name == datafile.object_vec[from][1]
             node == datafile.object_vec[from][2]
         IN  (IF node.object_vec = <<>>
              THEN write_value_key(node, name, indent_level)
                   \o write_list(data_file, node) \o <<"\n">>
              ELSE write_node_header(node, indent_level, name)
                   \o write_node(data_file, node, indent_level + 1, 1)
                   \o write_node_footer(node, indent_level))
             \o write_node(data_file, datafile, indent_level, from + 1)

\* Writer::write: the bytes handed to the file.
WriterBuffer(data_file) ==
    LET text == write_node(data_file, data_file, 0, 1)
    IN  IF StartsWith(text, "\n") THEN Tail(text) ELSE text

\* BufRead::lines: the text cut at each "\n"; a "\r" before it is dropped.
RECURSIVE FileLines(_)
FileLines(text) ==
    IF text = <<>> THEN <<>>
    ELSE LET n == Find(text, "\n")
             line == IF n = 0 THEN text ELSE SubSeq(text, 1, n - 1)
             rest == IF n = 0 THEN <<>> ELSE SubSeq(text, n + 1, Len(text))
         IN  <<OkLine(IF line # <<>> /\ line[Len(line)] = "\r"
                     THEN SubSeq(line, 1, Len(line) - 1) ELSE line)>>
             \o FileLines(rest)

\* datafile.write(path) by a caller that holds a tree it built or read.
Write ==
    /\ pc \in {"idle", "done"}
    /\ ~IsFresh(root)
    /\ buffer' = WriterBuffer(root)
    /\ pc' = "written"
    /\ UNCHANGED <<root, lines, stack, result, saved, ret, step, out>>

\* Datafile::new(sep, ws) and read(path) of the file just written
\* (examples/usage.rs): up to the first call of read_inner.
ReadBack ==
    /\ pc = "written"
    /\ saved' = root
    /\ root' = DatafileNew(root.list_separator, root.whitespace_sequence)
    /\ lines' = FileLines(buffer)
    /\ stack' = <<[node |-> <<>>, skip |-> 0, i |-> 0]>>
    /\ pc' = "reading"
    /\ result' = "none"
    /\ ret' = <<>>
    /\ UNCHANGED <<buffer, step, out>>

\* The values of a tree that is written: one holds the list separator.
ListValues == Values \cup {<<"x", ",", "y">>}

\* The calls that build the tree to write: children are created, and values
\* are set on children (the Writer writes no value of the root itself).
NextBuild ==
    \/ \E path \in ApiPaths(root), name \in Names :
           /\ ~has_property(NodeAt(root, path), name)
           /\ Get(path, name)
           /\ NodeCount(root') <= MaxTreeNodes
    \/ \E path \in ApiPaths(root) \ {<<>>}, value \in ListValues,
          index \in 0..MaxIndex :
           SetString(path, value, index) /\ ValueCount(root') <= MaxValues

\* The position path of the node reached from node through the names.
RECURSIVE PathOf(_, _)
PathOf(node, names) ==
    IF names = <<>> THEN <<>>
    ELSE LET p == node.object_map[Head(names)] + 1
         IN  <<p>> \o PathOf(Child(node, p), Tail(names))

\* The names and values of main (examples/usage.rs).
N_some_node == <<"s", "o", "m", "e", "_", "n", "o", "d", "e">>
N_name == <<"n", "a", "m", "e">>
N_age == <<"a", "g", "e">>
N_height == <<"h", "e", "i", "g", "h", "t">>
N_code == <<"c", "o", "d", "e">>
N_pc == <<"p", "c">>
N_processor == <<"p", "r", "o", "c", "e", "s", "s", "o", "r">>
N_ram == <<"r", "a", "m">>
V_Javid == <<"J", "a", "v", "i", "d">>
V_cpp == <<"c", "+", "+">>
V_vhdl == <<"v", "h", "d", "l">>
V_lua == <<"l", "u", "a">>
V_intel == <<"i", "n", "t", "e", "l">>
V_1_88 == [neg |-> FALSE, digits |-> <<"1", "8", "8">>, point |-> 1]

\* The calls of main up to the write, in order: each one on the node that
\* the names of `on` lead to from the root.
Script ==
    << [op |-> "get", on |-> <<>>, name |-> N_some_node],
       [op |-> "get", on |-> <<N_some_node>>, name |-> N_name],
       [op |-> "set_string", on |-> <<N_some_node, N_name>>,
        value |-> V_Javid, index |-> 0],
       [op |-> "get", on |-> <<N_some_node>>, name |-> N_age],
       [op |-> "set_integer", on |-> <<N_some_node, N_age>>,
        value |-> 24, index |-> 0],
       [op |-> "get", on |-> <<N_some_node>>, name |-> N_height],
       [op |-> "set_real", on |-> <<N_some_node, N_height>>,
        value |-> V_1_88, index |-> 0],
       [op |-> "get", on |-> <<N_some_node>>, name |-> N_code],
       [op |-> "set_string", on |-> <<N_some_node, N_code>>,
        value |-> V_cpp, index |-> 0],
       [op |-> "set_string", on |-> <<N_some_node, N_code>>,
        value |-> V_vhdl, index |-> 1],
       [op |-> "set_string", on |-> <<N_some_node, N_code>>,
        value |-> V_lua, index |-> 2],
       [op |-> "get", on |-> <<N_some_node>>, name |-> N_pc],
       [op |-> "get", on |-> <<N_some_node, N_pc>>, name |-> N_processor],
       [op |-> "set_string", on |-> <<N_some_node, N_pc, N_processor>>,
        value |-> V_intel, index |-> 0],
       [op |-> "get", on |-> <<N_some_node, N_pc>>, name |-> N_ram],
       [op |-> "set_integer", on |-> <<N_some_node, N_pc, N_ram>>,
        value |-> 32, index |-> 0] >>

\* let mut datafile = Datafile::new(Some(','), Some(" "));
MainNew ==
    /\ step = 0 /\ pc = "idle" /\ IsFresh(root)
    /\ root' = DatafileNew(",", <<" ">>)
    /\ step' = 1
    /\ UNCHANGED <<pc, lines, stack, result, buffer, saved, ret, out>>

\* The next call of main is op: the node it is made on.
MainCall(op) ==
    /\ step \in 1..Len(Script) /\ pc = "idle"
    /\ Script[step].op = op
    /\ step' = step + 1
    /\ UNCHANGED <<pc, lines, stack, result, buffer, saved, out>>

MainGet ==
    /\ MainCall("get")
    /\ LET path == PathOf(root, Script[step].on)
           g == get(NodeAt(root, path), Script[step].name)
       IN  /\ root' = ReplaceAt(root, path, g.node)
           /\ ret' = path \o <<g.at>>

MainSetString ==
    /\ MainCall("set_string")
    /\ LET path == PathOf(root, Script[step].on) IN
       root' = ReplaceAt(root, path,
                         set_string(NodeAt(root, path), Script[step].value,
                                    Script[step].index))
    /\ UNCHANGED ret

MainSetInteger ==
    /\ MainCall("set_integer")
    /\ LET path == PathOf(root, Script[step].on) IN
       root' = ReplaceAt(root, path,
                         set_integer(NodeAt(root, path), Script[step].value,
                                     Script[step].index))
    /\ UNCHANGED ret

MainSetReal ==
    /\ MainCall("set_real")
    /\ LET path == PathOf(root, Script[step].on) IN
       root' = ReplaceAt(root, path,
                         set_real(NodeAt(root, path), Script[step].value,
                                  Script[step].index))
    /\ UNCHANGED ret

NextRoundTrip ==
    \/ pc = "idle" /\ step = 0 /\ NextBuild
    \/ pc = "idle" /\ step = 0 /\ IsFresh(root)
       /\ \E source \in Sources(MaxSourceLines) : ReadStart(source)
    \/ MainNew
    \/ MainGet
    \/ MainSetString
    \/ MainSetInteger
    \/ MainSetReal
    \/ Write
    \/ ReadBack
    \/ ReadStep

\* A tree is built by calls of the API or by a read, written, and read back
\* into a fresh root.
SpecRoundTrip == Init /\ [][NextRoundTrip]_vars

Next ==
    \/ NextApi
    \/ ReadOpenFails
    \/ pc = "idle" /\ IsFresh(root)
       /\ \E source \in Sources(MaxSourceLines) : ReadStart(source)
    \/ ReadStep

\* Calls of the API and reads of a source into a fresh root, in any order.
Spec == Init /\ [][Next]_vars

----------------------------------------------------------------------------
(* Callers of the typed accessors. *)

\* The texts a caller stores: at most MaxTokens pieces, each a character of
\* a number, a letter that is none, or a word that f32 parsing knows.
MaxTokens == 4

Tokens ==
    {<<"1">>, <<"5">>, <<"-">>, <<"+">>, <<".">>, <<",">>, <<"e">>, <<"x">>,
     <<"i", "n", "f">>, <<"n", "a", "n">>}

Texts == {Concat(ts) : ts \in SeqsUpTo(Tokens, MaxTokens)}

\* datafile.set_string(text, 0) on a Datafile just made.
StoreText(text) ==
    /\ pc = "idle" /\ IsFresh(root)
    /\ SetString(<<>>, text, 0)

\* node.get_integer(index) on a node the caller reached.
GetInteger(path, index) ==
    /\ pc = "idle"
    /\ out' = <<get_integer(NodeAt(root, path), index)>>
    /\ UNCHANGED <<root, pc, lines, stack, result, buffer, saved, ret, step>>

NextLexical ==
    \/ IsFresh(root) /\ \E text \in Texts : StoreText(text)
    \/ \E path \in ApiPaths(root), index \in 0..MaxIndex :
           GetInteger(path, index)

\* A text is stored and read as an integer, at the index or beyond it.
SpecLexical == Init /\ [][NextLexical]_vars

----------------------------------------------------------------------------
(* Properties of the Datafile API. *)

\* The segments of a dotted name.
RECURSIVE Segments(_)
Segments(name) ==
    IF Find(name, ".") = 0 THEN <<name>>
    ELSE <<SubSeq(name, 1, Find(name, ".") - 1)>>
         \o Segments(SubSeq(name, Find(name, ".") + 1, Len(name)))

\* The positions in object_vec of the children that carry the name.
Named(node, name) ==
    {i \in 1..Len(node.object_vec) : node.object_vec[i][1] = name}

\* Every segment is a registered child of the node the segment before it names.
RECURSIVE ChainExists(_, _)
ChainExists(node, segs) ==
    \/ segs = <<>>
    \/ /\ has_property(node, Head(segs))
       /\ node.object_map[Head(segs)] + 1 \in Named(node, Head(segs))
       /\ ChainExists(Child(node, node.object_map[Head(segs)] + 1), Tail(segs))

RECURSIVE ChainPath(_, _)
ChainPath(node, segs) ==
    IF segs = <<>> THEN <<>>
    ELSE <<node.object_map[Head(segs)] + 1>>
         \o ChainPath(Child(node, node.object_map[Head(segs)] + 1), Tail(segs))

EmptyChild(self) == DatafileNew(self.list_separator, self.whitespace_sequence)

\* C3: after get_property(s1.s2...sn) every prefix s1...sk exists as a chain
\* of nested children and the reference returned is the node of sn.
C3_GetPropertyCreatesChain ==
    [][\A path \in ApiPaths(root), name \in DottedNames :
          GetProperty(path, name) =>
              /\ ChainExists(NodeAt(root', path), Segments(name))
              /\ ret' = path \o ChainPath(NodeAt(root', path), Segments(name))
      ]_vars

\* C5 (state part): at every node a caller can reach, every registered name
\* names exactly one child, the one at the registered position.
C5_OneChildPerName ==
    \A path \in ApiPaths(root) :
        \A name \in DOMAIN NodeAt(root, path).object_map :
            Named(NodeAt(root, path), name)
                = {NodeAt(root, path).object_map[name] + 1}

\* C5 (step part): get of a missing name appends one empty child, registers
\* it and returns it; get of a registered name changes nothing and returns
\* the child at the registered position; no API call moves a registered name.
C5_GetStep ==
    /\ \A path \in ApiPaths(root), name \in Names :
          Get(path, name) =>
              LET n == NodeAt(root, path)
                  m == NodeAt(root', path)
              IN  IF has_property(n, name)
                  THEN /\ root' = root
                       /\ ret' = path \o <<n.object_map[name] + 1>>
                  ELSE /\ m.object_vec
                            = Append(n.object_vec, <<name, EmptyChild(n)>>)
                       /\ has_property(m, name)
                       /\ DOMAIN m.object_map = DOMAIN n.object_map \cup {name}
                       /\ m.contents = n.contents
                       /\ ret' = path \o <<Len(m.object_vec)>>
                       /\ root' = ReplaceAt(root, path, m)
    /\ \A path \in ApiPaths(root) :
          /\ path \in ApiPaths(root')
          /\ \A name \in DOMAIN NodeAt(root, path).object_map :
                /\ has_property(NodeAt(root', path), name)
                /\ NodeAt(root', path).object_map[name]
                       = NodeAt(root, path).object_map[name]

\* C5: lookup by name is total and idempotent: a missing name gets exactly
\* one empty child, every later get returns that child, and the number of
\* children with a registered name is always exactly one.
C5_GetIdempotent == []C5_OneChildPerName /\ [][C5_GetStep]_vars

\* C5 witness: a name was looked up, written through, and looked up again
\* (the last get returned a child that holds a value) beside another child.
C5_Witness ==
    /\ ret # <<>>
    /\ NodeAt(root, ret).contents # <<>>
    /\ Len(root.object_vec) = 2

\* C6: set_string(v, k) on a node with n values leaves max(n, k+1) values,
\* v at index k, the other indices below n unchanged and the indices from n
\* up to k-1 empty.
C6_FillOnWrite ==
    [][\A path \in ApiPaths(root), value \in Values, index \in 0..MaxIndex :
          SetString(path, value, index) =>
              LET old == NodeAt(root, path).contents
                  new == NodeAt(root', path).contents
              IN  /\ get_value_count(NodeAt(root', path))
                         = Max(Len(old), index + 1)
                  /\ get_string(NodeAt(root', path), index) = value
                  /\ \A i \in 0..(Len(old) - 1) :
                         i # index => new[i + 1] = old[i + 1]
                  /\ \A i \in Len(old)..(index - 1) : new[i + 1] = <<>>
      ]_vars

\* C6 witness: a write at the highest index of an empty node filled the
\* indices below it with empty strings.
C6_Witness ==
    \E path \in ApiPaths(root) :
        LET c == NodeAt(root, path).contents IN
        /\ Len(c) = MaxIndex + 1
        /\ c[MaxIndex + 1] = <<"x">>
        /\ \A i \in 1..MaxIndex : c[i] = <<>>

----------------------------------------------------------------------------
(* Properties of the Reader. *)

\* The trimmed text of line j (1-based) of the source.
TextOf(j) == Trim(lines[j].text)

AllLinesOk == \A j \in 1..Len(lines) : lines[j].ok

\* The nesting depth after line j by the grammar of the format: a header
\* opens a block and a closing brace closes one; -1 once a closing brace
\* has ended the top-level scope.
RECURSIVE DepthAfter(_)
DepthAfter(j) ==
    IF j = 0 THEN 0
    ELSE LET d == DepthAfter(j - 1)
             kind == LineKind(TextOf(j))
         IN  IF d < 0 THEN d
             ELSE IF kind = "header" THEN d + 1
             ELSE IF kind = "close" THEN d - 1
             ELSE d

\* C1: after the closing brace of a block the parse continues in the
\* enclosing scope: a comment, value or header line that follows a closed
\* top-level block is attached to the root.
C1_LinesAfterBlockAttach ==
    (pc = "done" /\ result = "Ok" /\ AllLinesOk) =>
        \A j \in 1..Len(lines) :
            (/\ DepthAfter(j - 1) = 0
             /\ \E k \in 1..(j - 1) : LineKind(TextOf(k)) = "close")
            => CASE LineKind(TextOf(j)) = "comment" -> Named(root, TextOf(j)) # {}
                 [] LineKind(TextOf(j)) = "header" -> has_property(root, TextOf(j))
                 [] LineKind(TextOf(j)) = "value" ->
                        has_property(root, Trim(SplitOnce(TextOf(j), "=")[1]))
                 [] OTHER -> TRUE

\* C4: a read that returns an error leaves the tree as it was before the call.
C4_ReadAtomic ==
    (pc = "done" /\ result \in {"OpenError", "LineError"}) => root = saved

\* C7: once every line of the source was obtained, read_inner returns Ok
\* and never panics, whatever the lines are.
C7_ParseCannotFail ==
    /\ result # "Panic"
    /\ (pc = "done" /\ result # "OpenError" /\ AllLinesOk) => result = "Ok"

\* C7 witness: a source with an empty key, a duplicate header and an
\* unmatched closing brace was parsed to the end.
C7_Witness ==
    /\ pc = "done" /\ result = "Ok" /\ Len(lines) = 3
    /\ TextOf(1) = <<"=", "x">> /\ TextOf(2) = <<"}">>
    /\ has_property(root, <<>>)

\* The current line has nothing after its first "=".
AtEmptyValueLine ==
    /\ pc = "reading" /\ ~AtEnd /\ lines[LineIndex + 1].ok
    /\ Contains(TextOf(LineIndex + 1), "=")
    /\ SplitOnce(TextOf(LineIndex + 1), "=")[2] = <<>>

\* C8 as stated: every line whose text after the first "=" is empty leaves
\* the tree unchanged.
C8_EmptyValueNoOp_AnyLine == [][AtEmptyValueLine => root' = root]_vars

\* C8: a line that does not start with "#" and whose text after the first
\* "=" is empty leaves the tree unchanged: no child named by the key is
\* created and has_property(key) is as before.
C8_EmptyValueNoOp ==
    [][(AtEmptyValueLine /\ ~StartsWith(TextOf(LineIndex + 1), "#")) =>
          /\ root' = root
          /\ LET key == Trim(SplitOnce(TextOf(LineIndex + 1), "=")[1])
             IN  has_property(NodeAt(root', Top.node), key)
                     = has_property(Parent, key)
      ]_vars

\* C8 witness: the line "b = " has been passed and the root has no child b.
C8_Witness ==
    /\ pc = "reading" /\ LineIndex >= 1
    /\ lines[LineIndex].ok
    /\ lines[LineIndex].text = <<"b", " ", "=", " ">>
    /\ ~has_property(root, <<"b">>)
    /\ root = saved

\* Every path of positions into the tree, comment children included.
RECURSIVE AllPaths(_)
AllPaths(node) ==
    {<<>>} \cup
    UNION {{<<i>> \o p : p \in AllPaths(Child(node, i))} :
           i \in 1..Len(node.object_vec)}

CommentPaths(tree) == {p \in AllPaths(tree) : NodeAt(tree, p).is_comment}

\* C9 (state part): a comment-flagged node has no values and no children,
\* and no registered name leads to one.
C9_CommentNodesBare ==
    \A p \in AllPaths(root) :
        LET n == NodeAt(root, p) IN
        /\ n.is_comment => n.contents = <<>> /\ n.object_vec = <<>>
        /\ \A name \in DOMAIN n.object_map :
               /\ n.object_map[name] + 1 \in 1..Len(n.object_vec)
               /\ ~Child(n, n.object_map[name] + 1).is_comment

\* C9 (step part): a line that starts with "#" appends one bare comment child
\* named by the line and registers nothing; no other step changes which
\* nodes are comment-flagged.
C9_CommentStep ==
    IF /\ pc = "reading" /\ ~AtEnd /\ lines[LineIndex + 1].ok
       /\ StartsWith(TextOf(LineIndex + 1), "#")
    THEN LET new == NodeAt(root', Top.node) IN
         /\ Len(new.object_vec) = Len(Parent.object_vec) + 1
         /\ SubSeq(new.object_vec, 1, Len(Parent.object_vec)) = Parent.object_vec
         /\ new.object_vec[Len(new.object_vec)][1] = TextOf(LineIndex + 1)
         /\ new.object_vec[Len(new.object_vec)][2] = construct_comment_node(Parent)
         /\ new.object_vec[Len(new.object_vec)][2].is_comment
         /\ new.object_map = Parent.object_map
         /\ new.contents = Parent.contents
         /\ root' = ReplaceAt(root, Top.node, new)
    ELSE CommentPaths(root') = CommentPaths(root)

\* C9: every line starting with "#" appends exactly one comment-flagged
\* child with no values and no children, never merged and never registered
\* in the name lookup; no other operation produces a comment-flagged node.
C9_CommentLines == []C9_CommentNodesBare /\ [][C9_CommentStep]_vars

\* C9 witness: two identical comment lines gave two children, and the API
\* was then used on the tree.
C9_Witness ==
    /\ Cardinality(Named(root, <<"#", "c">>)) = 2
    /\ pc = "idle"
    /\ root.contents # <<>>

----------------------------------------------------------------------------
(* Properties of a write followed by a read. *)

\* A value without quote characters and without whitespace at its ends.
Clean(value) == ~Contains(value, "\"") /\ Trim(value) = value

\* A tree with children in which every node below the root is a container
\* without values or a leaf with one or more values, all of them clean and not empty.
PlainTree(tree) ==
    /\ tree.contents = <<>>
    /\ tree.object_vec # <<>>
    /\ \A p \in AllPaths(tree) \ {<<>>} :
           LET n == NodeAt(tree, p) IN
           /\ ~n.is_comment
           /\ (n.object_vec = <<>>) = (n.contents # <<>>)
           /\ \A i \in 1..Len(n.contents) :
                  Clean(n.contents[i]) /\ n.contents[i] # <<>>

\* C2: a tree built through get and set_string (here: one that is plain),
\* written and read back into a fresh root with the same separator, is
\* reproduced: same children, names, order, nesting and value lists.
C2_RoundTrip ==
    (pc = "done" /\ result = "Ok" /\ PlainTree(saved)) => root = saved

\* The tree is one leaf whose values are clean and hold the separator.
OneSeparatorLeaf(tree) ==
    /\ Len(tree.object_vec) = 1
    /\ tree.contents = <<>>
    /\ LET leaf == Child(tree, 1) IN
       /\ leaf.object_vec = <<>>
       /\ ~leaf.is_comment
       /\ \A i \in 1..Len(leaf.contents) : Clean(leaf.contents[i])
       /\ \E i \in 1..Len(leaf.contents) :
              Contains(leaf.contents[i], tree.list_separator)

\* The number of quote characters in a text.
QuoteCount(text) == Cardinality({i \in 1..Len(text) : text[i] = "\""})

\* The line of the leaf holds two quotes for each value with the separator,
\* and after the read the leaf has the same values again.
QuotedAndRecovered ==
    LET leaf == Child(saved, 1) IN
    /\ QuoteCount(buffer)
           = 2 * Cardinality({i \in 1..Len(leaf.contents) :
                                 Contains(leaf.contents[i], saved.list_separator)})
    /\ has_property(root, saved.object_vec[1][1])
    /\ Len(root.object_vec) = 1
    /\ get_value_count(Child(root, 1)) = get_value_count(leaf)
    /\ \A i \in 0..(get_value_count(leaf) - 1) :
           get_string(Child(root, 1), i) = get_string(leaf, i)

\* C10 as stated: every list of clean values of which one holds the
\* separator is written with exactly those values quoted and is read back
\* value for value.
C10_QuotedListRoundTrip_AnyList ==
    (pc = "done" /\ OneSeparatorLeaf(saved)) => QuotedAndRecovered

\* C10: as above, for the lists whose last value is not the empty string
\* (the parser writes the token after the last separator only if it is not
\* empty).
C10_QuotedListRoundTrip ==
    (/\ pc = "done" /\ OneSeparatorLeaf(saved)
     /\ Child(saved, 1).contents[Len(Child(saved, 1).contents)] # <<>>)
    => QuotedAndRecovered

\* C10 witness: a list of an empty value and a value with the separator was
\* written and read back.
C10_Witness ==
    /\ pc = "done" /\ OneSeparatorLeaf(saved)
    /\ Child(saved, 1).contents = <<<<>>, <<"x", ",", "y">>>>
    /\ root = saved

----------------------------------------------------------------------------
(* Properties of main (examples/usage.rs). *)

\* The node of tree that the names lead to.
Reach(tree, names) == NodeAt(tree, ChainPath(tree, names))

\* The leaves of the scenario with the strings they were given.
ScenarioStrings ==
    { <<<<N_some_node, N_name>>, <<V_Javid>>>>,
      <<<<N_some_node, N_code>>, <<V_cpp, V_vhdl, V_lua>>>>,
      <<<<N_some_node, N_pc, N_processor>>, <<V_intel>>>> }

\* The leaves of the scenario with the integer they were given.
ScenarioIntegers ==
    { <<<<N_some_node, N_age>>, 24>>, <<<<N_some_node, N_pc, N_ram>>, 32>> }

\* The tree holds every leaf of the scenario with its values, and the one
\* real, under some_node and some_node.pc, in the order of the calls.
ScenarioIn(tree) ==
    /\ \A leaf \in ScenarioStrings :
           /\ ChainExists(tree, leaf[1])
           /\ get_value_count(Reach(tree, leaf[1])) = Len(leaf[2])
           /\ \A i \in 1..Len(leaf[2]) :
                  get_string(Reach(tree, leaf[1]), i - 1) = leaf[2][i]
    /\ \A leaf \in ScenarioIntegers :
           /\ ChainExists(tree, leaf[1])
           /\ get_value_count(Reach(tree, leaf[1])) = 1
           /\ get_integer(Reach(tree, leaf[1]), 0) = leaf[2]
    /\ ChainExists(tree, <<N_some_node, N_height>>)
    /\ Reach(tree, <<N_some_node, N_height>>).contents
           = <<f32_serialize(V_1_88)>>
    /\ [i \in 1..Len(tree.object_vec) |-> tree.object_vec[i][1]]
           = <<N_some_node>>
    /\ LET some_node == Reach(tree, <<N_some_node>>) IN
       [i \in 1..Len(some_node.object_vec) |-> some_node.object_vec[i][1]]
           = <<N_name, N_age, N_height, N_code, N_pc>>
    /\ LET node == Reach(tree, <<N_some_node, N_pc>>) IN
       [i \in 1..Len(node.object_vec) |-> node.object_vec[i][1]]
           = <<N_processor, N_ram>>

\* main has made all its calls, written the tree and read the file back.
MainReadBack == step = Len(Script) + 1 /\ pc = "done"

\* C11: after main built the scenario, wrote it and read the file into a
\* fresh root, the read succeeded and the new root holds every value of the
\* scenario (same counts, strings and integers) under some_node and
\* some_node.pc.
C11_UsageRoundTrip == MainReadBack => (result = "Ok" /\ ScenarioIn(root))

\* C11 witness: the written tree held the scenario, and the tree read back
\* has ram = 32 under some_node.pc.
C11_Witness ==
    /\ MainReadBack
    /\ ScenarioIn(saved)
    /\ ChainExists(root, <<N_some_node, N_pc, N_ram>>)
    /\ get_integer(Reach(root, <<N_some_node, N_pc, N_ram>>), 0) = 32

----------------------------------------------------------------------------
(* Properties of the typed accessors. *)

\* The text get_integer reads: the value at the index, "" beyond the values.
TextAt(node, index) ==
    IF index < Len(node.contents) THEN node.contents[index + 1] ELSE <<>>

\* The text as a real: the text itself when f32 parsing takes it, else the
\* text with "." for each ",".
AsReal(text) ==
    IF parse_f32(text).ok THEN parse_f32(text)
    ELSE parse_f32(Replace(text, ",", "."))

\* The integer the real, cut at its decimal point, is: none (<<>>) when the
\* real is not a number or is infinite, or when that integer is not an i32.
Truncated(real) ==
    IF real.kind # "finite" \/ real.over THEN <<>>
    ELSE <<IF real.neg THEN -real.whole ELSE real.whole>>

\* What the chain as stated yields: the integer, else the real truncated
\* toward zero, else 0.
StatedInteger(text) ==
    IF parse_i32(text).ok THEN <<parse_i32(text).value>>
    ELSE IF AsReal(text).ok THEN Truncated(AsReal(text))
    ELSE <<0>>

\* What the chain yields when the cast saturates: a real beyond the i32
\* range gives i32::MAX or i32::MIN by its sign, NaN gives 0.
SaturatedInteger(text) ==
    IF parse_i32(text).ok THEN <<parse_i32(text).value>>
    ELSE IF ~AsReal(text).ok \/ AsReal(text).kind = "nan" THEN <<0>>
    ELSE IF Truncated(AsReal(text)) # <<>> THEN Truncated(AsReal(text))
    ELSE <<IF AsReal(text).neg THEN -I32_MAX - 1 ELSE I32_MAX>>

\* C12 as stated: every get_integer returns the integer the text is, else
\* the real it is truncated toward zero, else 0.
C12_IntegerCoercion_Truncated ==
    [][\A path \in ApiPaths(root), index \in 0..MaxIndex :
           GetInteger(path, index)
           => out' = StatedInteger(TextAt(NodeAt(root, path), index))]_vars

\* C12: every get_integer returns the integer the text is, else the real it
\* is truncated toward zero and saturated to the i32 range (0 for NaN), else
\* 0; it returns for every text and every index.
C12_IntegerCoercion ==
    [][\A path \in ApiPaths(root), index \in 0..MaxIndex :
           GetInteger(path, index)
           => out' = SaturatedInteger(TextAt(NodeAt(root, path), index))]_vars

\* C12 witness: "-1.5" was read as -1.
C12_Witness == root.contents = <<<<"-", "1", ".", "5">>>> /\ out = <<-1>>

----------------------------------------------------------------------------
(* Properties of the serializer. *)

\* The lines of a text: the pieces that end at a "\n".
RECURSIVE SplitLines(_)
SplitLines(text) ==
    IF text = <<>> THEN <<>>
    ELSE IF Find(text, "\n") = 0 THEN <<text>>
    ELSE <<SubSeq(text, 1, Find(text, "\n") - 1)>>
         \o SplitLines(SubSeq(text, Find(text, "\n") + 1, Len(text)))

\* d times the whitespace sequence of the tree.
Indent(tree, d) == Concat([i \in 1..d |-> tree.whitespace_sequence])

\* The lines the walk over the children of node (from position from on, at
\* depth d) has to emit: for a childless child one line that starts with
\* its name at depth d, for any other child a blank line, the name, "{",
\* the lines of its children at depth d + 1, and "}".
RECURSIVE Layout(_, _, _, _)
Layout(tree, node, d, from) ==
    IF from > Len(node.object_vec) THEN <<>>
    ELSE LET name  == node.object_vec[from][1]
             child == node.object_vec[from][2]
         IN  (IF child.object_vec = <<>>
              THEN <<[whole |-> FALSE, text |-> Indent(tree, d) \o name]>>
              ELSE <<[whole |-> TRUE, text |-> <<>>],
                     [whole |-> TRUE, text |-> Indent(tree, d) \o name],
                     [whole |-> TRUE, text |-> Indent(tree, d) \o <<"{">>]>>
                   \o Layout(tree, child, d + 1, 1)
                   \o <<[whole |-> TRUE, text |-> Indent(tree, d) \o <<"}">>]>>)
             \o Layout(tree, node, d, from + 1)

\* The lines are those of the layout, one for one.
Follows(textLines, layout) ==
    /\ Len(textLines) = Len(layout)
    /\ \A i \in 1..Len(layout) :
           IF layout[i].whole THEN textLines[i] = layout[i].text
           ELSE /\ Len(textLines[i]) > Len(layout[i].text)
                /\ SubSeq(textLines[i], 1, Len(layout[i].text)) = layout[i].text

\* Every "{" line has a later "}" line at its indentation, and as many
\* lines close a block as open one.
BracesMatch(textLines) ==
    /\ \A i \in 1..Len(textLines) :
           TrimStart(textLines[i]) = <<"{">>
           => \E j \in (i + 1)..Len(textLines) :
                  textLines[j]
                      = SubSeq(textLines[i], 1, Len(textLines[i]) - 1) \o <<"}">>
    /\ Cardinality({i \in 1..Len(textLines) : TrimStart(textLines[i]) = <<"{">>})
           = Cardinality({i \in 1..Len(textLines) :
                              TrimStart(textLines[i]) = <<"}">>})

\* C13: what the walk from depth 0 emits for the tree just written follows
\* the layout that the children alone decide (one line for a childless
\* child; blank line, name, "{", children one deeper, "}" for any other),
\* and in the output every "{" line is matched by a later "}" line at the
\* same indentation.
C13_BlockLayout ==
    pc = "written"
    => /\ Follows(SplitLines(write_node(root, root, 0, 1)),
                  Layout(root, root, 0, 1))
       /\ BracesMatch(SplitLines(buffer))

\* C13 witness: main's tree was written: a block in a block, with value
\* lines at depth 1 and 2.
C13_Witness ==
    /\ pc = "written" /\ step = Len(Script) + 1
    /\ \E i \in 1..Len(SplitLines(buffer)) :
           SplitLines(buffer)[i] = <<" ", "}">>
    /\ \E i \in 1..Len(SplitLines(buffer)) :
           SplitLines(buffer)[i] = <<" ", " ">> \o N_ram \o <<" ", "=", " ", "3", "2">>

----------------------------------------------------------------------------
(* Properties of the value tokenization. *)

\* The number of quote characters before position i.
QuotesBefore(raw, i) == Cardinality({j \in 1..(i - 1) : raw[j] = "\""})

\* The positions of the separators that are outside quotes.
Cuts(raw, sep) ==
    {i \in 1..Len(raw) : raw[i] = sep /\ QuotesBefore(raw, i) % 2 = 0}

\* The k-th of them from the left; 0 for k = 0 and the end for k beyond.
NthCut(raw, sep, k) ==
    IF k = 0 THEN 0
    ELSE IF k > Cardinality(Cuts(raw, sep)) THEN Len(raw) + 1
    ELSE CHOOSE i \in Cuts(raw, sep) :
             Cardinality({j \in Cuts(raw, sep) : j < i}) = k - 1

\* The k-th token: the text between two cuts without its quote characters.
RawToken(raw, sep, k) ==
    SelectSeq(SubSeq(raw, NthCut(raw, sep, k - 1) + 1, NthCut(raw, sep, k) - 1),
              LAMBDA c : c # "\"")

\* The values a raw value writes, in index order: one trimmed token for
\* each separator outside quotes, and the rest if it is not empty.
TokensOf(raw, sep) ==
    LET n == Cardinality(Cuts(raw, sep)) IN
    [k \in 1..(IF RawToken(raw, sep, n + 1) # <<>> THEN n + 1 ELSE n)
        |-> Trim(RawToken(raw, sep, k))]

\* The parent with the tokens written over the first values of its child
\* named key (made and registered if missing, when there is a token).
WithTokens(parent, key, tokens) ==
    IF tokens = <<>> THEN parent
    ELSE LET g == get(parent, key)
             old == Child(g.node, g.at).contents
         IN  SetChild(g.node, g.at,
                      [Child(g.node, g.at) EXCEPT !.contents =
                          [i \in 1..Max(Len(old), Len(tokens))
                              |-> IF i <= Len(tokens) THEN tokens[i] ELSE old[i]]])

\* C14: a value line writes to the child named by the trimmed key the
\* tokens of its raw value at indices 0, 1, ...: quotes are dropped, a
\* separator in quotes is kept, a separator outside quotes ends a token
\* (stored trimmed, empty ones too), and the rest is written iff it is not
\* empty; nothing else in the tree changes.
C14_Tokenization ==
    [][ReadValue
       => LET split == SplitOnce(CurLine.text, "=") IN
          /\ result' # "Panic"
          /\ root' = ReplaceAt(root, Top.node,
                               WithTokens(Parent, Trim(split[1]),
                                          TokensOf(split[2], Parent.list_separator)))]_vars

\* C14 witness: the raw value ,"," gave a the values "" and ",", and
\* the read went on.
C14_Witness ==
    /\ pc = "reading"
    /\ lines = <<OkLine(<<"a", " ", "=", ",", "\"", ",", "\"">>)>>
    /\ has_property(root, <<"a">>)
    /\ Child(root, 1).contents = <<<<>>, <<",">>>>

----------------------------------------------------------------------------
(* Properties of the name index. *)

\* The name index of a node agrees with its children: each registered name
\* points into object_vec at a child of that name which is no comment, no
\* two names point to the same position, and every child that is no
\* comment is registered at its position.
IndexConsistent(node) ==
    /\ \A name \in DOMAIN node.object_map :
           /\ node.object_map[name] + 1 \in 1..Len(node.object_vec)
           /\ node.object_vec[node.object_map[name] + 1][1] = name
           /\ ~Child(node, node.object_map[name] + 1).is_comment
    /\ \A n1, n2 \in DOMAIN node.object_map :
           node.object_map[n1] = node.object_map[n2] => n1 = n2
    /\ \A i \in 1..Len(node.object_vec) :
           ~Child(node, i).is_comment
           => /\ node.object_vec[i][1] \in DOMAIN node.object_map
              /\ node.object_map[node.object_vec[i][1]] + 1 = i

\* get of a registered name stays in bounds, changes nothing and returns a
\* child of that name that is no comment.
GetSound(node) ==
    \A name \in DOMAIN node.object_map :
        /\ ~get(node, name).panic
        /\ get(node, name).node = node
        /\ node.object_vec[get(node, name).at][1] = name
        /\ ~Child(node, get(node, name).at).is_comment

\* C15: after any calls of get, get_property and set_string and any reads
\* (comment lines included), the name index of every node of the tree is
\* consistent with its children, so that get is sound on it.
C15_IndexConsistency ==
    \A p \in AllPaths(root) :
        IndexConsistent(NodeAt(root, p)) /\ GetSound(NodeAt(root, p))

\* C15 witness: a read put a comment child before a registered child, and
\* a get then returned the registered child, at position 2.
C15_Witness ==
    /\ pc = "idle"
    /\ Len(root.object_vec) = 2
    /\ Child(root, 1).is_comment
    /\ DOMAIN root.object_map = {<<"a">>}
    /\ ret = <<2>>

----------------------------------------------------------------------------
(* Properties of the progress of a read. *)

\* The index (from 0) of the line that the innermost call of a stack is at.
LineIndexOf(calls) == calls[Len(calls)].skip + calls[Len(calls)].i

\* A step of the read: a call made for a header line starts after that
\* line, and as long as the read goes on the line examined next is the one
\* after the line examined now, so that no line is examined twice.
C16_Forward ==
    /\ ReadHeader /\ pc' = "reading"
       => /\ Len(stack') = Len(stack) + 1
          /\ stack'[Len(stack')].skip > LineIndex
    /\ pc = "reading" /\ pc' = "reading"
       => /\ ~AtEnd
          /\ LineIndexOf(stack') = LineIndex + 1
          /\ LineIndexOf(stack') <= Len(lines)

\* The read ends at the end of the lines or at a closing-brace line.
C16_EndsAtEndOrBrace ==
    pc = "reading" /\ pc' = "done"
    => \/ AtEnd
       \/ CurLine.ok /\ StartsWith(CurLine.text, "}")

\* The read ends at the end of the lines, at a closing-brace line, or with
\* the error of a line that could not be read.
C16_EndsAtEndBraceOrError ==
    pc = "reading" /\ pc' = "done"
    => \/ AtEnd /\ result' = "Ok"
       \/ ~AtEnd /\ CurLine.ok /\ StartsWith(CurLine.text, "}") /\ result' = "Ok"
       \/ ~AtEnd /\ ~CurLine.ok /\ result' = "LineError"

====
